---- MODULE Spec2Model ----
(***************************************************************************)
(* Model of the 3Commas instruction translator: OrderParser.parse and its  *)
(* extractors (translator/parser.py), OrderInstruction.as_payload,         *)
(* Translator.translate_and_execute (translator/translator.py),            *)
(* ThreeCommasClient.create_simple_trade / _request (translator/client.py).*)
(*                                                                         *)
(* A Python str is modelled as a sequence of one-character strings, so     *)
(* that substring tests, case conversion and the regular expressions are   *)
(* computed character by character, as the interpreter computes them.      *)
(***************************************************************************)
EXTENDS Integers, Sequences, FiniteSets, TLC

VARIABLES
  message,        \* the argument of Translator.translate_and_execute
  account_id,     \* client.config.account_id
  dry_run,        \* client.config.dry_run
  pc,             \* where translate_and_execute is, or how it ended
  frame,          \* the locals of OrderParser.parse when it ended
  error,          \* the message of the OrderParserError raised, "" if none
  instruction,    \* << the OrderInstruction parse returned >>, << >> if none
  payload,        \* << the payload dict of translate_and_execute >>
  submissions,    \* the calls of create_simple_trade: endpoint and body
  http_requests,  \* the number of calls of requests.request
  response        \* << what translate_and_execute returned >>

vars == <<message, account_id, dry_run, pc, frame, error, instruction,
          payload, submissions, http_requests, response>>

(***************************************************************************)
(* Characters and character classes                                        *)
(***************************************************************************)

\* <<lower, upper>> for every cased character: str.lower / str.upper
CasePairs ==
  { <<"a","A">>, <<"b","B">>, <<"c","C">>, <<"d","D">>, <<"e","E">>,
    <<"f","F">>, <<"g","G">>, <<"h","H">>, <<"i","I">>, <<"j","J">>,
    <<"k","K">>, <<"l","L">>, <<"m","M">>, <<"n","N">>, <<"o","O">>,
    <<"p","P">>, <<"q","Q">>, <<"r","R">>, <<"s","S">>, <<"t","T">>,
    <<"u","U">>, <<"v","V">>, <<"w","W">>, <<"x","X">>, <<"y","Y">>,
    <<"z","Z">>, <<"è","È">>, <<"é","É">>, <<"à","À">> }

\* [A-Z]
UpperAZ ==
  { "A","B","C","D","E","F","G","H","I","J","K","L","M",
    "N","O","P","Q","R","S","T","U","V","W","X","Y","Z" }

\* [a-z]
LowerAZ ==
  { "a","b","c","d","e","f","g","h","i","j","k","l","m",
    "n","o","p","q","r","s","t","u","v","w","x","y","z" }

\* [a-zA-Z]
AsciiLetters == LowerAZ \cup UpperAZ

\* [0-9]
Digits == { "0","1","2","3","4","5","6","7","8","9" }

\* \s, and the characters str.strip() removes
Whitespace == { " ", "\t" }

\* [\s:]
QuantitySeparators == Whitespace \cup { ":" }

\* [.,]
DecimalSeparators == { ".", "," }

\* [/\-]
PairSeparators == { "/", "-" }

LowerChar(c) ==
  IF \E p \in CasePairs : p[2] = c
    THEN (CHOOSE p \in CasePairs : p[2] = c)[1]
    ELSE c

UpperChar(c) ==
  IF \E p \in CasePairs : p[1] = c
    THEN (CHOOSE p \in CasePairs : p[1] = c)[2]
    ELSE c

\* str.lower()
Lower(s) == [i \in 1..Len(s) |-> LowerChar(s[i])]

\* str.upper()
Upper(s) == [i \in 1..Len(s) |-> UpperChar(s[i])]

\* str.strip(): drop the leading and trailing whitespace
Strip(s) ==
  LET inked == { i \in 1..Len(s) : s[i] \notin Whitespace }
  IN  IF inked = {}
        THEN << >>
        ELSE LET first == CHOOSE i \in inked : \A j \in inked : i <= j
                 last  == CHOOSE i \in inked : \A j \in inked : j <= i
             IN  SubSeq(s, first, last)

\* token at position i of s, compared character by character
MatchAt(token, s, i) ==
  /\ i >= 1
  /\ i + Len(token) - 1 <= Len(s)
  /\ \A k \in 1..Len(token) : s[i + k - 1] = token[k]

\* re.IGNORECASE comparison of a literal of the pattern
MatchAtIgnoreCase(token, s, i) ==
  /\ i >= 1
  /\ i + Len(token) - 1 <= Len(s)
  /\ \A k \in 1..Len(token) : LowerChar(s[i + k - 1]) = LowerChar(token[k])

\* Python's `token in message`
Contains(token, s) == \E i \in 1..Len(s) : MatchAt(token, s, i)

\* the number of consecutive characters of class C at position i (greedy C*)
RECURSIVE RunLength(_, _, _)
RunLength(s, i, C) ==
  IF i <= Len(s) /\ s[i] \in C THEN 1 + RunLength(s, i + 1, C) ELSE 0

\* the smallest element of a non-empty set of integers
Least(S) == CHOOSE i \in S : \A j \in S : i <= j

(***************************************************************************)
(* The token sets and the patterns of OrderParser                          *)
(***************************************************************************)

W_buy == <<"b","u","y">>
W_achete_grave == <<"a","c","h","è","t","e">>
W_achete == <<"a","c","h","e","t","e">>
W_achat == <<"a","c","h","a","t">>
W_sell == <<"s","e","l","l">>
W_vends == <<"v","e","n","d","s">>
W_vendre == <<"v","e","n","d","r","e">>
W_vend == <<"v","e","n","d">>
W_revends == <<"r","e","v","e","n","d","s">>
W_revendre == <<"r","e","v","e","n","d","r","e">>
W_limit == <<"l","i","m","i","t">>
W_limite == <<"l","i","m","i","t","e">>
W_market == <<"m","a","r","k","e","t">>
W_marche_aigu == <<"m","a","r","c","h","é">>
W_marche == <<"m","a","r","c","h","e">>
W_at == <<"a","t">>
W_a_grave == <<"à">>

BUY_TOKENS == { W_buy, W_achete_grave, W_achete, W_achat }

SELL_TOKENS == { W_sell, W_vends, W_vendre, W_vend, W_revends, W_revendre }

LIMIT_TOKENS == { W_limit, W_limite }

MARKET_TOKENS == { W_market, W_marche_aigu, W_marche }

\* the bounds of [A-Z]{3,5}
CodeMin == 3

CodeMax == 5

\* The ways ([A-Z]{3,5})(?:[/\-]|)([A-Z]{3,5}) can split a match, in the order
\* the backtracking engine tries them: the base greedy (5, 4, 3 letters), and
\* for each base the separator alternative before the empty alternative.
PairSplits ==
  [k \in 1..(2 * (CodeMax - CodeMin + 1)) |->
     [base |-> CodeMax - ((k - 1) \div 2), sep |-> k % 2]]

PairSplitMatches(s, i, c) ==
  /\ RunLength(s, i, UpperAZ) >= c.base
  /\ c.sep = 1 => (i + c.base <= Len(s) /\ s[i + c.base] \in PairSeparators)
  /\ RunLength(s, i + c.base + c.sep, UpperAZ) >= CodeMin

RECURSIVE PairStart(_, _)
\* the leftmost position from i on where the pattern matches, 0 if none
PairStart(s, i) ==
  IF i > Len(s)
    THEN 0
    ELSE IF \E k \in DOMAIN PairSplits : PairSplitMatches(s, i, PairSplits[k])
           THEN i
           ELSE PairStart(s, i + 1)

\* PAIR_PATTERN.search(s): None (<< >>) or << <<base, quote>> >>, the groups
\* of the leftmost match
PAIR_PATTERN(s) ==
  LET i == PairStart(s, 1)
  IN  IF i = 0
        THEN << >>
        ELSE LET k == Least({ n \in DOMAIN PairSplits :
                                PairSplitMatches(s, i, PairSplits[n]) })
                 c == PairSplits[k]
                 q == i + c.base + c.sep
                 run == RunLength(s, q, UpperAZ)
                 quoteLen == IF run > CodeMax THEN CodeMax ELSE run
             IN  << << SubSeq(s, i, i + c.base - 1),
                       SubSeq(s, q, q + quoteLen - 1) >> >>

\* the end (exclusive) of [0-9]+(?:[.,][0-9]+)? started at the digit s[i]
NumberEnd(s, i) ==
  LET d == i + RunLength(s, i, Digits)
  IN  IF /\ d + 1 <= Len(s)
         /\ s[d] \in DecimalSeparators
         /\ s[d + 1] \in Digits
        THEN d + 1 + RunLength(s, d + 1, Digits)
        ELSE d

\* (?:at|à), in the order of the alternation
PriceWords == << W_at, W_a_grave >>

\* where the number starts when (?:at|à)\s+[0-9] matches at i with word w,
\* else 0
PriceNumberStart(s, i, w) ==
  IF ~ MatchAtIgnoreCase(w, s, i)
    THEN 0
    ELSE LET j == i + Len(w)
             ws == RunLength(s, j, Whitespace)
         IN  IF ws >= 1 /\ j + ws <= Len(s) /\ s[j + ws] \in Digits
               THEN j + ws
               ELSE 0

RECURSIVE PriceStart(_, _)
\* the leftmost position from i on where the pattern matches, 0 if none
PriceStart(s, i) ==
  IF i > Len(s)
    THEN 0
    ELSE IF \E k \in DOMAIN PriceWords : PriceNumberStart(s, i, PriceWords[k]) > 0
           THEN i
           ELSE PriceStart(s, i + 1)

\* PRICE_PATTERN.search(s): None (<< >>) or << group(1) >> of the leftmost match
PRICE_PATTERN(s) ==
  LET i == PriceStart(s, 1)
  IN  IF i = 0
        THEN << >>
        ELSE LET k == Least({ n \in DOMAIN PriceWords :
                                PriceNumberStart(s, i, PriceWords[n]) > 0 })
                 b == PriceNumberStart(s, i, PriceWords[k])
             IN  << SubSeq(s, b, NumberEnd(s, b) - 1) >>

\* (?:buy|sell|ach(?:è|e)te|achat|vend(?:re|s)?), in the order the
\* alternation is tried
QuantityWords ==
  << W_buy, W_sell, W_achete_grave, W_achete, W_achat, W_vendre, W_vends, W_vend >>

\* where the number starts when
\* <word>[\s:]+(?:[a-zA-Z]+\s+)?[0-9] matches at i with word w, else 0
QuantityNumberStart(s, i, w) ==
  IF ~ MatchAtIgnoreCase(w, s, i)
    THEN 0
    ELSE LET j == i + Len(w)
             sp == RunLength(s, j, QuantitySeparators)
             k == j + sp
             filler == RunLength(s, k, AsciiLetters)
             ws == RunLength(s, k + filler, Whitespace)
         IN  IF sp = 0
               THEN 0
               ELSE IF /\ filler >= 1
                       /\ ws >= 1
                       /\ k + filler + ws <= Len(s)
                       /\ s[k + filler + ws] \in Digits
                      THEN k + filler + ws
                      ELSE IF k <= Len(s) /\ s[k] \in Digits
                             THEN k
                             ELSE 0

RECURSIVE QuantityStart(_, _)
\* the leftmost position from i on where the pattern matches, 0 if none
QuantityStart(s, i) ==
  IF i > Len(s)
    THEN 0
    ELSE IF \E k \in DOMAIN QuantityWords :
                QuantityNumberStart(s, i, QuantityWords[k]) > 0
           THEN i
           ELSE QuantityStart(s, i + 1)

\* QUANTITY_PATTERN.search(s): None (<< >>) or << group(1) >> of the leftmost
\* match
QUANTITY_PATTERN(s) ==
  LET i == QuantityStart(s, 1)
  IN  IF i = 0
        THEN << >>
        ELSE LET k == Least({ n \in DOMAIN QuantityWords :
                                QuantityNumberStart(s, i, QuantityWords[n]) > 0 })
                 b == QuantityNumberStart(s, i, QuantityWords[k])
             IN  << SubSeq(s, b, NumberEnd(s, b) - 1) >>

(***************************************************************************)
(* float(): a decimal literal as << m, e >>, the number m / 10^e with the  *)
(* trailing zeros of the fraction removed, so that equal numbers are equal *)
(* values ("1.50" and "1.5", "0.0" and "0").                               *)
(***************************************************************************)

DigitChars == << "0","1","2","3","4","5","6","7","8","9" >>

DigitValue(c) == (CHOOSE n \in DOMAIN DigitChars : DigitChars[n] = c) - 1

RECURSIVE DigitsValue(_)
DigitsValue(ds) ==
  IF ds = << >>
    THEN 0
    ELSE 10 * DigitsValue(SubSeq(ds, 1, Len(ds) - 1)) + DigitValue(ds[Len(ds)])

RECURSIVE Normalise(_, _)
Normalise(m, e) ==
  IF e > 0 /\ m % 10 = 0 THEN Normalise(m \div 10, e - 1) ELSE << m, e >>

\* str.replace(a, b) for single characters
Replace(s, a, b) == [i \in 1..Len(s) |-> IF s[i] = a THEN b ELSE s[i]]

\* float(text) of a literal [0-9]+(\.[0-9]+)?
Float(text) ==
  LET dots == { i \in 1..Len(text) : text[i] = "." }
  IN  IF dots = {}
        THEN << DigitsValue(text), 0 >>
        ELSE LET d == Least(dots)
                 whole == SubSeq(text, 1, d - 1)
                 frac == SubSeq(text, d + 1, Len(text))
             IN  Normalise(DigitsValue(whole \o frac), Len(frac))

\* Python's None
None == << >>

(***************************************************************************)
(* OrderParser                                                             *)
(***************************************************************************)

\* the messages of the OrderParserError raised by parse and its extractors
EmptyInstruction == "The instruction message is empty."

AmbiguousSide == "Could not determine whether the order is a buy or sell."

MissingPair == "No trading pair detected in the instruction."

MissingQuantity == "No quantity detected in the instruction."

MissingPrice ==
  "No limit price found in the instruction while a limit order was requested."

\* how a call ends: `return v` or `raise OrderParserError(e)`
Return(v) == [raised |-> FALSE, value |-> v]

Raise(e) == [raised |-> TRUE, error |-> e]

\* _extract_side with the sell tokens looked for first
_extract_side_sell_first(m) ==
  IF \E token \in SELL_TOKENS : Contains(token, m)
    THEN Return("sell")
    ELSE IF \E token \in BUY_TOKENS : Contains(token, m)
           THEN Return("buy")
           ELSE Raise(AmbiguousSide)

_extract_side(m) ==
  IF \E token \in BUY_TOKENS : Contains(token, m)
    THEN Return("buy")
    ELSE IF \E token \in SELL_TOKENS : Contains(token, m)
           THEN Return("sell")
           ELSE Raise(AmbiguousSide)

\* _extract_order_type with the market tokens looked for first
_extract_order_type_market_first(m) ==
  IF \E token \in MARKET_TOKENS : Contains(token, m)
    THEN Return("market")
    ELSE IF \E token \in LIMIT_TOKENS : Contains(token, m)
           THEN Return("limit")
           ELSE Return("market")

_extract_order_type(m) ==
  IF \E token \in LIMIT_TOKENS : Contains(token, m)
    THEN Return("limit")
    ELSE IF \E token \in MARKET_TOKENS : Contains(token, m)
           THEN Return("market")
           ELSE Return("market")

_extract_pair(m) ==
  LET match == PAIR_PATTERN(Upper(m))
  IN  IF match = None
        THEN Raise(MissingPair)
        ELSE LET base == match[1][1]
                 quote == match[1][2]
             IN  Return(base \o << "_" >> \o quote)

_extract_price(m) ==
  LET match == PRICE_PATTERN(m)
  IN  IF match = None
        THEN Return(None)
        ELSE Return(Float(Replace(match[1], ",", ".")))

_extract_quantity(m) ==
  LET match == QUANTITY_PATTERN(m)
  IN  IF match = None
        THEN Raise(MissingQuantity)
        ELSE Return(Float(Replace(match[1], ",", ".")))

\* OrderInstruction(side=..., pair=..., quantity=..., order_type=..., price=...)
OrderInstruction(side, pair, quantity, order_type, price) ==
  [side |-> side, pair |-> pair, quantity |-> quantity,
   order_type |-> order_type, price |-> price]

\* the locals of parse before any is assigned
NoLocals ==
  [normalized |-> << >>, lower_message |-> << >>, side |-> "",
   order_type |-> "", pair |-> << >>, quantity |-> << >>, price |-> << >>]

\* the price extracted whatever the order type
limit_price_any_type(order_type, lower_message) == _extract_price(lower_message)

\* price = self._extract_price(lower_message) if order_type == "limit" else None
limit_price(order_type, lower_message) ==
  IF order_type = "limit" THEN _extract_price(lower_message) ELSE Return(None)

\* parse with the quantity extracted, and its absence reported, before the pair
parse_quantity_before_pair(m) ==
  LET normalized == Strip(m)
      lower_message == Lower(normalized)
      side == _extract_side(lower_message)
      order_type == _extract_order_type(lower_message)
      quantity == _extract_quantity(lower_message)
      pair == _extract_pair(normalized)
      price == limit_price(order_type.value, lower_message)
      f0 == [NoLocals EXCEPT !.normalized = normalized,
                             !.lower_message = lower_message]
      f1 == [f0 EXCEPT !.side = side.value]
      f2 == [f1 EXCEPT !.order_type = order_type.value]
      f3 == [f2 EXCEPT !.quantity = quantity.value]
      f4 == [f3 EXCEPT !.pair = pair.value]
      f5 == [f4 EXCEPT !.price = price.value]
  IN  IF normalized = << >>
        THEN Raise(EmptyInstruction) @@ [frame |-> NoLocals]
        ELSE IF side.raised
          THEN side @@ [frame |-> f0]
          ELSE IF quantity.raised
            THEN quantity @@ [frame |-> f2]
            ELSE IF pair.raised
              THEN pair @@ [frame |-> f3]
              ELSE IF order_type.value = "limit" /\ price.value = None
                THEN Raise(MissingPrice) @@ [frame |-> f5]
                ELSE Return(OrderInstruction(side.value, pair.value,
                                             quantity.value, order_type.value,
                                             price.value))
                       @@ [frame |-> f5]

\* OrderParser.parse(message): how the call ends, and its locals at that point
\* (frame), a local never assigned keeping its NoLocals value
parse(m) ==
  LET normalized == Strip(m)
      lower_message == Lower(normalized)
      side == _extract_side(lower_message)
      order_type == _extract_order_type(lower_message)
      pair == _extract_pair(normalized)
      quantity == _extract_quantity(lower_message)
      price == limit_price(order_type.value, lower_message)
      f0 == [NoLocals EXCEPT !.normalized = normalized,
                             !.lower_message = lower_message]
      f1 == [f0 EXCEPT !.side = side.value]
      f2 == [f1 EXCEPT !.order_type = order_type.value]
      f3 == [f2 EXCEPT !.pair = pair.value]
      f4 == [f3 EXCEPT !.quantity = quantity.value]
      f5 == [f4 EXCEPT !.price = price.value]
  IN  IF normalized = << >>
        THEN Raise(EmptyInstruction) @@ [frame |-> NoLocals]
        ELSE IF side.raised
          THEN side @@ [frame |-> f0]
          ELSE IF order_type.raised
            THEN order_type @@ [frame |-> f1]
            ELSE IF pair.raised
              THEN pair @@ [frame |-> f2]
              ELSE IF quantity.raised
                THEN quantity @@ [frame |-> f3]
                ELSE IF order_type.value = "limit" /\ price.value = None
                  THEN Raise(MissingPrice) @@ [frame |-> f5]
                  ELSE Return(OrderInstruction(side.value, pair.value,
                                               quantity.value, order_type.value,
                                               price.value))
                         @@ [frame |-> f5]

\* as_payload with the price block built for every order type
as_payload_price_block_always(self, account) ==
  [account_id |-> account,
   pair |-> self.pair,
   position |->
     [type |-> IF self.order_type = "market" THEN "market" ELSE "limit",
      units |-> [value |-> self.quantity],
      price |-> [value |-> self.price]]]

\* OrderInstruction.as_payload(account_id)
as_payload(self, account) ==
  LET position ==
        [type |-> IF self.order_type = "market" THEN "market" ELSE "limit",
         units |-> [value |-> self.quantity]]
  IN  [account_id |-> account,
       pair |-> self.pair,
       position |-> IF self.order_type = "limit"
                      THEN position @@ [price |-> [value |-> self.price]]
                      ELSE position]

(***************************************************************************)
(* ThreeCommasClient                                                       *)
(***************************************************************************)

\* instruction.get("side") is truthy when the key is there and not ""
_infer_side_from_position(p) ==
  IF "side" \in DOMAIN p /\ p["side"] # ""
    THEN p["side"]
    ELSE IF "position" \in DOMAIN p
              /\ "type" \in DOMAIN p["position"]
              /\ p["position"]["type"] = "sell"
           THEN "sell"
           ELSE "buy"

\* create_simple_trade with the side taken from the position block alone
create_simple_trade_side_from_position(p) ==
  LET side == _infer_side_from_position([k \in DOMAIN p \ { "side" } |-> p[k]])
  IN  [method |-> "POST",
       endpoint |-> "/ver1/smart_trades/create_simple_" \o side,
       payload |-> [k \in DOMAIN p \ { "side" } |-> p[k]]]

\* the side, endpoint and body create_simple_trade hands to _request
create_simple_trade(p) ==
  LET side == IF "side" \in DOMAIN p /\ p["side"] # ""
                THEN p["side"]
                ELSE _infer_side_from_position(p)
  IN  [method |-> "POST",
       endpoint |-> "/ver1/smart_trades/create_simple_" \o side,
       payload |-> [k \in DOMAIN p \ { "side" } |-> p[k]]]

(***************************************************************************)
(* The messages the model is run on                                        *)
(***************************************************************************)

\* the largest one-digit quantity written in a message
MaxUnits == 2

\* the longest run of whitespace put around a message
MaxPad == 2

\* the account ids configured
MaxAccount == 2

\* the texts the messages are made of
TEN == <<"1","0">>

HALF == <<"0",".","5">>

ONE_AND_HALF == <<"1",",","5">>

ZERO_COMMA == <<"0",",","0">>

ZERO == <<"0">>

TWO == <<"2">>

BTC == <<"B","T","C">>

USDT == <<"U","S","D","T">>

MATIC == <<"M","A","T","I","C">>

AT_1800 == <<"a","t"," ","1","8","0","0">>

A_GRAVE_ZERO == <<"à"," ","0">>

AT_1_5 == <<"a","t"," ","1",",","5">>

BTC_USDT == <<"B","T","C","/","U","S","D","T">>

ETHUSDT == <<"E","T","H","U","S","D","T">>

BTC_USDT_LOWER == <<"b","t","c","-","u","s","d","t">>

SELL_CAP == <<"S","e","l","l">>

ABOUT == <<"a","b","o","u","t">>

RECURSIVE Words(_)
\* the non-empty parts, joined by single spaces
Words(parts) ==
  IF parts = << >>
    THEN << >>
    ELSE LET rest == Words(Tail(parts))
         IN  IF Head(parts) = << >>
               THEN rest
               ELSE IF rest = << >>
                      THEN Head(parts)
                      ELSE Head(parts) \o << " " >> \o rest

Absent == { << >> }

ActionWords == BUY_TOKENS \cup SELL_TOKENS

TypeWords == LIMIT_TOKENS \cup MARKET_TOKENS

UnitLiterals == { << DigitChars[n + 1] >> : n \in 0..MaxUnits }

QuantityLiterals ==
  UnitLiterals \cup { TEN, HALF, ONE_AND_HALF, ZERO_COMMA }

Codes == { BTC, USDT, MATIC }

PriceClauses == { AT_1800, A_GRAVE_ZERO, AT_1_5 }

\* "t q BASE<sep>QUOTE"
PlainOrders ==
  { Words(<< t, q, b \o << sep >> \o c >>) :
      t \in ActionWords, q \in UnitLiterals,
      b \in Codes, sep \in PairSeparators, c \in Codes }

\* "[t] [q] [pair] [price clause] [type]", any part absent
Orders ==
  { Words(<< t, q, p, pr, ty >>) :
      t \in ActionWords \cup Absent,
      q \in { ZERO, TEN, ONE_AND_HALF } \cup Absent,
      p \in { BTC_USDT, ETHUSDT } \cup Absent,
      pr \in PriceClauses \cup Absent,
      ty \in { W_limit, W_marche_aigu } \cup Absent }

\* two action words, in either case, around the quantity
SideMixes ==
  { Words(<< a, TWO, b, p >>) :
      a \in ActionWords \cup { Upper(W_buy), Upper(W_achete_grave), SELL_CAP } \cup Absent,
      b \in { W_buy, W_achat, W_vends, W_revendre, SELL_CAP } \cup Absent,
      p \in { BTC_USDT_LOWER } \cup Absent }

\* two order-type words, with and without a price
TypeMixes ==
  { Words(<< W_sell, TWO, BTC_USDT, pr, x, y >>) :
      pr \in { AT_1800 } \cup Absent,
      x \in TypeWords \cup { Upper(W_limit), Upper(W_marche_aigu) } \cup Absent,
      y \in TypeWords \cup { Upper(W_limit), Upper(W_marche_aigu) } \cup Absent }

\* the ways the quantity is attached to the action word
QuantityForms ==
  { t \o sep \o filler \o q \o << " " >> \o BTC_USDT \o ty :
      t \in { W_buy, W_achat, W_revendre },
      sep \in { << " " >>, << ":" >>, << ":", " " >>, << >> },
      filler \in { << >>, ABOUT \o << " " >>, ABOUT, W_a_grave \o << " " >> },
      q \in { TWO, HALF, ZERO_COMMA },
      ty \in { << >>, << " " >> \o W_limit } }

RECURSIVE Pads(_)
\* the runs of at most n whitespace characters
Pads(n) ==
  IF n = 0
    THEN { << >> }
    ELSE LET shorter == Pads(n - 1)
         IN  shorter \cup { << w >> \o s : w \in Whitespace, s \in shorter }

\* whitespace around nothing, around a market order and around a limit order
Padded ==
  { l \o m \o r :
      l \in Pads(MaxPad), r \in Pads(MaxPad),
      m \in { << >>, Words(<< W_buy, HALF, BTC_USDT >>),
              Words(<< W_vends, TEN, ETHUSDT, AT_1800, W_limit >>) } }

Messages ==
  PlainOrders \cup Orders \cup SideMixes \cup TypeMixes \cup QuantityForms \cup Padded

AccountIds == 1..MaxAccount

(***************************************************************************)
(* Translator.translate_and_execute                                        *)
(***************************************************************************)

Init ==
  /\ message \in Messages
  /\ account_id \in AccountIds
  /\ dry_run \in BOOLEAN
  /\ pc = "parse"
  /\ frame = NoLocals
  /\ error = ""
  /\ instruction = << >>
  /\ payload = << >>
  /\ submissions = << >>
  /\ http_requests = 0
  /\ response = << >>

\* instruction = self.parser.parse(message); an OrderParserError leaves
\* translate_and_execute
Parse ==
  /\ pc = "parse"
  /\ \E r \in { parse(message) } :
         /\ frame' = r.frame
         /\ IF r.raised
              THEN /\ error' = r.error
                   /\ instruction' = << >>
                   /\ pc' = "raised"
              ELSE /\ error' = ""
                   /\ instruction' = << r.value >>
                   /\ pc' = "as_payload"
  /\ UNCHANGED <<message, account_id, dry_run, payload, submissions,
                 http_requests, response>>

\* payload = instruction.as_payload(self.client.config.account_id)
AsPayload ==
  /\ pc = "as_payload"
  /\ payload' = << as_payload(instruction[1], account_id) >>
  /\ pc' = "set_side"
  /\ UNCHANGED <<message, account_id, dry_run, frame, error, instruction,
                 submissions, http_requests, response>>

\* payload["side"] = instruction.side
SetSide ==
  /\ pc = "set_side"
  /\ payload' = << [side |-> instruction[1].side] @@ payload[1] >>
  /\ pc' = "create_simple_trade"
  /\ UNCHANGED <<message, account_id, dry_run, frame, error, instruction,
                 submissions, http_requests, response>>

\* return self.client.create_simple_trade(payload), dry_run set: _request
\* returns the request it would have sent
CreateSimpleTradeDryRun ==
  /\ pc = "create_simple_trade"
  /\ dry_run
  /\ LET request == create_simple_trade(payload[1])
     IN  /\ submissions' = Append(submissions, request)
         /\ response' = << [status |-> "dry_run", request |-> request] >>
  /\ pc' = "returned"
  /\ UNCHANGED <<message, account_id, dry_run, frame, error, instruction,
                 payload, http_requests>>

\* return self.client.create_simple_trade(payload), dry_run clear: _request
\* sends the request; raise_for_status() raises or response.json() is returned
CreateSimpleTrade ==
  /\ pc = "create_simple_trade"
  /\ ~ dry_run
  /\ LET request == create_simple_trade(payload[1])
     IN  submissions' = Append(submissions, request)
  /\ http_requests' = http_requests + 1
  /\ \E ok \in BOOLEAN :
       IF ok
         THEN /\ response' = << [status |-> "created"] >>
              /\ pc' = "returned"
         ELSE /\ response' = << >>
              /\ pc' = "failed"
  /\ UNCHANGED <<message, account_id, dry_run, frame, error, instruction,
                 payload>>

Next ==
  \/ Parse
  \/ AsPayload
  \/ SetSide
  \/ CreateSimpleTradeDryRun
  \/ CreateSimpleTrade

Spec == Init /\ [][Next]_vars

(***************************************************************************)
(* The properties                                                          *)
(***************************************************************************)

\* parse has ended, by a return or by an OrderParserError
Parsed == pc # "parse"

\* parse returned an order
Returned == instruction # << >>

\* the message parse works on: stripped, and then lower-cased
Stripped == frame.normalized

Lowered == frame.lower_message

\* t is a substring of m
Occurs(t, m) ==
  \E i \in 1..(Len(m) - Len(t) + 1) : \A k \in 1..Len(t) : m[i + k - 1] = t[k]

\* t occurs in m at position i
OccursAt(t, m, i) ==
  /\ i >= 1
  /\ i + Len(t) - 1 <= Len(m)
  /\ \A k \in 1..Len(t) : m[i + k - 1] = t[k]

HasBuyToken == \E t \in BUY_TOKENS : Occurs(t, Lowered)

HasSellToken == \E t \in SELL_TOKENS : Occurs(t, Lowered)

HasLimitToken == \E t \in LIMIT_TOKENS : Occurs(t, Lowered)

HasMarketToken == \E t \in MARKET_TOKENS : Occurs(t, Lowered)

\* C1: whenever parse returns an order, its price is present if and only if
\* its order type is limit; a market order has no price even when the text
\* holds an "at <number>" fragment.
C1_PriceIffLimit ==
  Returned =>
    /\ instruction[1].order_type \in { "limit", "market" }
    /\ (instruction[1].price # None) <=> (instruction[1].order_type = "limit")

\* a market order returned for a message that holds an "at <number>" fragment
C1_Witness ==
  /\ Returned
  /\ instruction[1].order_type = "market"
  /\ instruction[1].price = None
  /\ PRICE_PATTERN(Lowered) # None

\* the error the fixed order of the checks (empty message, side, pair,
\* quantity, limit price) reports for the message, "" when no check fails
FirstError ==
  IF \A i \in 1..Len(message) : message[i] \in Whitespace
    THEN EmptyInstruction
    ELSE IF ~ HasBuyToken /\ ~ HasSellToken
      THEN AmbiguousSide
      ELSE IF \E upper \in { Upper(Stripped) } : PAIR_PATTERN(upper) = None
        THEN MissingPair
        ELSE IF QUANTITY_PATTERN(Lowered) = None
          THEN MissingQuantity
          ELSE IF HasLimitToken /\ PRICE_PATTERN(Lowered) = None
            THEN MissingPrice
            ELSE ""

\* C2: parse either returns an order with side, pair, quantity and order type
\* all set, or raises exactly one error and returns nothing; the error is the
\* first that applies in the order empty message, side, pair, quantity, limit
\* price, and a message of whitespace alone gives the empty-instruction error.
C2_OrderOrFirstError ==
  Parsed =>
    /\ error = FirstError
    /\ (error = "") <=> Returned
    /\ (error # "") <=> (pc = "raised")
    /\ Returned =>
         /\ instruction[1].side \in { "buy", "sell" }
         /\ instruction[1].order_type \in { "limit", "market" }
         /\ instruction[1].pair # << >>
         /\ instruction[1].quantity # None

\* the missing pair is reported for a message that has no quantity either
C2_Witness ==
  /\ pc = "raised"
  /\ error = MissingPair
  /\ QUANTITY_PATTERN(Lowered) = None
  /\ instruction = << >>

\* C3: on a non-empty message the side is buy whenever a buy token occurs in
\* the lower-cased message, wherever a sell token occurs; it is sell exactly
\* when no buy token and some sell token occurs; the ambiguous-side error is
\* raised exactly when neither occurs.
C3_SideResolution ==
  (Parsed /\ Stripped # << >>) =>
    /\ HasBuyToken => frame.side = "buy"
    /\ (frame.side = "sell") <=> (~ HasBuyToken /\ HasSellToken)
    /\ (error = AmbiguousSide) <=> (~ HasBuyToken /\ ~ HasSellToken)

\* the side is buy although a sell token occurs before the first buy token
C3_Witness ==
  /\ Parsed
  /\ frame.side = "buy"
  /\ \E i \in 1..Len(Lowered) :
       /\ \E t \in SELL_TOKENS : OccursAt(t, Lowered, i)
       /\ \A j \in 1..i : \A t \in BUY_TOKENS : ~ OccursAt(t, Lowered, j)

\* the messages "t q BASE<sep>QUOTE" the text of the message can be read as
PlainOrderReadings ==
  { r \in ActionWords \X QuantityLiterals \X Codes \X PairSeparators \X Codes :
      message = r[1] \o << " " >> \o r[2] \o << " " >> \o r[3] \o << r[4] >> \o r[5] }

\* the text is [A-Z]{3,5}_[A-Z]{3,5}
IsPairText(p) ==
  \E b \in CodeMin..CodeMax, q \in CodeMin..CodeMax :
    /\ Len(p) = b + 1 + q
    /\ p[b + 1] = "_"
    /\ \A i \in (1..b) \cup ((b + 2)..Len(p)) : p[i] \in UpperAZ

\* C4: parse of "t q BASE<sep>QUOTE" returns the pair BASE_QUOTE for every
\* action token t, and every pair returned matches [A-Z]{3,5}_[A-Z]{3,5}.
C4_PairIsTheInstrument ==
  Parsed =>
    /\ \A r \in PlainOrderReadings :
         Returned /\ instruction[1].pair = r[3] \o << "_" >> \o r[5]
    /\ Returned => IsPairText(instruction[1].pair)

\* "vends 10 ETHUSDT at 1800 limit"
ScenarioB == Words(<< W_vends, TEN, ETHUSDT, AT_1800, W_limit >>)

\* C5: parse of "vends 10 ETHUSDT at 1800 limit" returns a sell limit order of
\* 10 ETH_USDT at 1800.
C5_ScenarioB ==
  (Parsed /\ message = ScenarioB) =>
    /\ Returned
    /\ instruction[1] =
         OrderInstruction("sell", << "E","T","H","_","U","S","D","T" >>,
                          << 10, 0 >>, "limit", << 1800, 0 >>)

\* where the numeric literals of m start
NumberStarts(m) ==
  { i \in 1..Len(m) :
      /\ m[i] \in Digits
      /\ (i = 1 \/ m[i - 1] \notin (Digits \cup DecimalSeparators)) }

\* a standalone word "at" or "à" followed by whitespace and a number
StatesPrice(m) ==
  \E i \in 1..Len(m), w \in { W_at, W_a_grave } :
    /\ OccursAt(w, m, i)
    /\ (i = 1 \/ m[i - 1] \in Whitespace)
    /\ i + Len(w) <= Len(m)
    /\ m[i + Len(w)] \in Whitespace
    /\ \E n \in NumberStarts(m) :
         /\ n > i + Len(w)
         /\ \A k \in (i + Len(w))..(n - 1) : m[k] \in Whitespace

\* C6: a message that resolves to a limit order and states no price (its only
\* numeric literal is the quantity, and no standalone "at" or "à" is followed
\* by a number) fails with the missing-price error, for every action token.
C6_LimitWithoutPriceFails ==
  ( /\ Parsed
    /\ frame.order_type = "limit"
    /\ frame.quantity # None
    /\ Cardinality(NumberStarts(Lowered)) = 1
    /\ ~ StatesPrice(Lowered) )
  => (error = MissingPrice /\ ~ Returned)

\* C7: every order returned has a quantity greater than 0 and, when it has a
\* price, a price greater than 0.
C7_PositiveQuantityAndPrice ==
  Returned =>
    /\ instruction[1].quantity[1] > 0
    /\ instruction[1].price # None => instruction[1].price[1] > 0

\* C8: once the side is resolved the order type is resolved too, never by an
\* error: limit if a limit token occurs in the lower-cased message, also when
\* a market token occurs, and market otherwise; an order returned for a
\* message with no order-type token has no price.
C8_OrderTypeResolution ==
  (Parsed /\ frame.side # "") =>
    /\ frame.order_type = (IF HasLimitToken THEN "limit" ELSE "market")
    /\ error \in { "", MissingPair, MissingQuantity, MissingPrice }
    /\ (Returned /\ ~ HasLimitToken /\ ~ HasMarketToken) =>
         (instruction[1].order_type = "market" /\ instruction[1].price = None)

\* the order type is limit although a market token occurs before the limit
\* token
C8_Witness ==
  /\ Parsed
  /\ frame.order_type = "limit"
  /\ \E i \in 1..Len(Lowered) :
       /\ \E t \in MARKET_TOKENS : OccursAt(t, Lowered, i)
       /\ \A j \in 1..i : \A t \in LIMIT_TOKENS : ~ OccursAt(t, Lowered, j)

\* C9: as_payload returns a mapping of exactly account_id (the given id), pair
\* (the order's pair) and position; position.type is the order type,
\* position.units.value the quantity, and position.price.value is present
\* exactly for a limit order and is then the order's price; there is no side
\* key, and the order is the one parse returned.
C9_PayloadShape ==
  pc = "set_side" =>
    LET p == payload[1]
        order == instruction[1]
    IN  /\ DOMAIN p = { "account_id", "pair", "position" }
        /\ p["account_id"] = account_id
        /\ p["pair"] = order.pair
        /\ p["position"]["type"] = order.order_type
        /\ p["position"]["units"] = [value |-> order.quantity]
        /\ ("price" \in DOMAIN p["position"]) <=> (order.order_type = "limit")
        /\ order.order_type = "limit" =>
             p["position"]["price"] = [value |-> order.price]
        /\ DOMAIN p["position"] \subseteq { "type", "units", "price" }
        /\ order = OrderInstruction(frame.side, frame.pair, frame.quantity,
                                    frame.order_type, frame.price)

\* the payload of a limit order, with its price block
C9_Witness ==
  /\ pc = "set_side"
  /\ instruction[1].order_type = "limit"
  /\ "price" \in DOMAIN payload[1]["position"]
  /\ payload[1]["position"]["price"]["value"] = instruction[1].price

\* C10: create_simple_trade is called at most once, and only after parse has
\* returned an order; when parse raises, nothing is submitted and no HTTP
\* request is made; the submission goes to the endpoint of the parsed side,
\* with a body that has no side key.
C10_SubmitOnlyAfterParse ==
  /\ Len(submissions) <= 1
  /\ http_requests <= Len(submissions)
  /\ error # "" => (submissions = << >> /\ http_requests = 0)
  /\ pc \in { "returned", "failed" } => Len(submissions) = 1
  /\ submissions # << >> =>
       /\ Returned
       /\ pc \in { "returned", "failed" }
       /\ submissions[1].endpoint =
            "/ver1/smart_trades/create_simple_" \o instruction[1].side
       /\ "side" \notin DOMAIN submissions[1].payload
       /\ submissions[1].payload = as_payload(instruction[1], account_id)

\* a sell order submitted over HTTP
C10_Witness ==
  /\ pc = "returned"
  /\ Len(submissions) = 1
  /\ http_requests = 1
  /\ instruction[1].side = "sell"
  /\ submissions[1].endpoint = "/ver1/smart_trades/create_simple_sell"

====
